---- MODULE Spec2Model ----
(***************************************************************************)
(* Model of the tree finder: the Query Service (src/app/api/trees/route.ts *)
(* GET handler and the SQL it sends to the spatial store) and the Map      *)
(* Client (src/app/_components/trees.tsx, findTrees and its callbacks).    *)
(*                                                                         *)
(* Representation.                                                         *)
(*  - A JavaScript string is a sequence of one-character strings; a query  *)
(*    parameter is Str(chars) or NULL (searchParams.get returned null).    *)
(*  - A JavaScript number is a record [k, v]: k = "num" with v the value   *)
(*    in hundredths (fixed point, two fractional digits), k = "inf" with   *)
(*    v the sign, or k = "nan".                                            *)
(*  - Coordinates are written in units of 1e-4 degree, so one hundredth is *)
(*    1e-6 degree: LatCm centimetres of latitude, LngCm centimetres of     *)
(*    longitude at the latitude of the data set.  distance_meters, being a *)
(*    number in hundredths, is a distance in centimetres.                  *)
(***************************************************************************)
EXTENDS Integers, Sequences, FiniteSets, TLC

VARIABLES
    store,          \* the rows of trees_centroids
    srv,            \* the requests the Query Service is handling, by slot
    mounted,        \* the page component has mounted (its mount effect ran)
    geolocation,    \* navigator.geolocation exists
    location,       \* useState: the user's location, or null
    trees,          \* useState: the trees of the last success response
    loading,        \* useState
    error,          \* useState: the message shown, or null
    geoPending,     \* getCurrentPosition calls whose callback has not run
    geoErrorCode,   \* code of the PositionError the error callback got last
    fetchPending,   \* requests sent to /api/trees and not yet settled
    draft,          \* which draft of the component runs: 1 or 2
    map,            \* mapInstanceRef.current: the Leaflet map, its markers
                    \* and its view
    clicks,         \* clicks on the button so far
    flow            \* how far the latest findTrees flow has come, and the
                    \* status of the response its fetch got

clientVars ==
    <<mounted, geolocation, location, trees, loading, error, geoPending,
      geoErrorCode, fetchPending, draft, map, clicks, flow>>

vars == <<store, srv, clientVars>>

----------------------------------------------------------------------------
(* Bounds of the model.                                                    *)

\* Tree positions range over 0..GridX units of longitude ...
GridX == 3
\* ... and 0..GridY units of latitude.
GridY == 2
\* At most MaxTrees rows in trees_centroids.
MaxTrees == 2
\* Requests handled concurrently in SpecConcurrent.
NumSlots == 2
\* The user clicks the button at most MaxClicks times.
MaxClicks == 2

----------------------------------------------------------------------------
(* JavaScript values.                                                      *)

NULL == [isNull |-> TRUE, chars |-> <<>>]
Str(cs) == [isNull |-> FALSE, chars |-> cs]

NaN == [k |-> "nan", v |-> 0]
Infinity(sign) == [k |-> "inf", v |-> sign]
Num(v) == [k |-> "num", v |-> v]

\* isNaN(x)
isNaN(x) == x.k = "nan"
IsFinite(x) == x.k = "num"

\* !s for s : string | null -- null and the empty string are falsy; every
\* other string, "0" included, is truthy.
Falsy(s) == s.isNull \/ s.chars = <<>>

Digits == {"0", "1", "2", "3", "4", "5", "6", "7", "8", "9"}

DigitVal(c) ==
    CASE c = "0" -> 0 [] c = "1" -> 1 [] c = "2" -> 2 [] c = "3" -> 3
      [] c = "4" -> 4 [] c = "5" -> 5 [] c = "6" -> 6 [] c = "7" -> 7
      [] c = "8" -> 8 [] c = "9" -> 9

RECURSIVE LeadSpaces(_, _)
\* Number of white-space characters of cs from position i on.
LeadSpaces(cs, i) ==
    IF i <= Len(cs) /\ cs[i] = " " THEN 1 + LeadSpaces(cs, i + 1) ELSE 0

RECURSIVE LeadDigits(_, _)
\* Number of decimal digits of cs from position i on.
LeadDigits(cs, i) ==
    IF i <= Len(cs) /\ cs[i] \in Digits THEN 1 + LeadDigits(cs, i + 1) ELSE 0

RECURSIVE DigitsValue(_, _, _)
\* The value of the n digits of cs that start at position i.
DigitsValue(cs, i, n) ==
    IF n = 0 THEN 0
    ELSE 10 * DigitsValue(cs, i, n - 1) + DigitVal(cs[i + n - 1])

\* The sign prefix of cs at position i: <<sign, length>>.
SignAt(cs, i) ==
    IF i <= Len(cs) /\ cs[i] = "-" THEN <<-1, 1>>
    ELSE IF i <= Len(cs) /\ cs[i] = "+" THEN <<1, 1>>
    ELSE <<1, 0>>

InfinityChars == <<"I", "n", "f", "i", "n", "i", "t", "y">>

StartsWithAt(cs, i, pre) ==
    /\ i + Len(pre) - 1 <= Len(cs)
    /\ \A j \in 1..Len(pre) : cs[i + j - 1] = pre[j]

\* parseInt(string): leading white space, a sign, then the longest run of
\* decimal digits; what follows is ignored; NaN when there is no digit.
\* (The strings of the model carry no 0x prefix.)
parseInt(cs) ==
    LET i0 == 1 + LeadSpaces(cs, 1)
        sg == SignAt(cs, i0)
        i1 == i0 + sg[2]
        n  == LeadDigits(cs, i1)
    IN  IF n = 0 THEN NaN ELSE Num(100 * sg[1] * DigitsValue(cs, i1, n))

\* parseFloat(string): leading white space, a sign, then "Infinity" or the
\* longest prefix that is a decimal literal (digits, an optional point and
\* digits); what follows is ignored; NaN when no such prefix exists.  The
\* value keeps two fractional digits.  (The strings of the model carry no
\* exponent part.)
parseFloat(cs) ==
    LET i0 == 1 + LeadSpaces(cs, 1)
        sg == SignAt(cs, i0)
        i1 == i0 + sg[2]
        n  == LeadDigits(cs, i1)
        pt == i1 + n <= Len(cs) /\ cs[i1 + n] = "."
        m  == IF pt THEN LeadDigits(cs, i1 + n + 1) ELSE 0
        d1 == IF m >= 1 THEN DigitVal(cs[i1 + n + 1]) ELSE 0
        d2 == IF m >= 2 THEN DigitVal(cs[i1 + n + 2]) ELSE 0
    IN  IF StartsWithAt(cs, i1, InfinityChars) THEN Infinity(sg[1])
        ELSE IF n = 0 /\ m = 0 THEN NaN
        ELSE Num(sg[1] * (100 * DigitsValue(cs, i1, n) + 10 * d1 + d2))

\* Math.round(x): the integer nearest to x, ties towards +Infinity.
MathRound(x) ==
    IF x.k = "num" THEN Num(100 * ((x.v + 50) \div 100)) ELSE x

----------------------------------------------------------------------------
(* The spatial store: table trees_centroids and the query GET sends.       *)

\* Centimetres per hundredth of a unit (1e-6 degree) of latitude ...
LatCm == 11
\* ... and of longitude, at the latitude of the data set (about 51 N).
LngCm == 7

NoGeometry == [isNull |-> TRUE, x |-> 0, y |-> 0]
PointGeometry(p) == [isNull |-> FALSE, x |-> 100 * p[1], y |-> 100 * p[2]]

Points == (0..GridX) \X (0..GridY)

\* A row of trees_centroids: "ID", "Boomsoort", "Boomhoogte", "geometry".
RowAt(p) ==
    [ID |-> 1 + p[1] * (GridY + 1) + p[2], Boomsoort |-> "Iep",
     Boomhoogte |-> 12, geometry |-> PointGeometry(p)]
NullRow ==
    [ID |-> 0, Boomsoort |-> "Iep", Boomhoogte |-> 12, geometry |-> NoGeometry]

CandidateRows == {RowAt(p) : p \in Points} \cup {NullRow}

RECURSIVE SubsetsUpTo(_, _)
\* The subsets of S that have at most k elements.
SubsetsUpTo(S, k) ==
    IF k = 0 THEN {{}}
    ELSE LET prev == SubsetsUpTo(S, k - 1)
         IN  prev \cup {T \cup {e} : T \in prev, e \in S}

Stores == SubsetsUpTo(CandidateRows, MaxTrees)

Abs(n) == IF n < 0 THEN -n ELSE n

RECURSIVE ISqrtBetween(_, _, _)
\* The integer square root of n, known to lie in lo..hi.
ISqrtBetween(n, lo, hi) ==
    IF lo >= hi THEN lo
    ELSE LET mid == (lo + hi + 1) \div 2
         IN  IF mid * mid <= n THEN ISqrtBetween(n, mid, hi)
             ELSE ISqrtBetween(n, lo, mid - 1)

\* "geometry" <-> ST_SetSRID(ST_Point($2, $1), 4326): the planar distance
\* of the raw geometries, in degrees; its square orders the same way.
PlanarKey(g, userLat, userLng) ==
    (g.x - userLng.v) * (g.x - userLng.v) + (g.y - userLat.v) * (g.y - userLat.v)

\* ST_Distance("geometry"::geography, ST_Point($2, $1)::geography): the
\* geodesic distance in metres, a number in hundredths (centimetres).
STDistance(g, userLat, userLng) ==
    LET dx == LngCm * Abs(g.x - userLng.v)
        dy == LatCm * Abs(g.y - userLat.v)
    IN  Num(ISqrtBetween(dx * dx + dy * dy, 0, dx + dy))

\* One row of the SELECT list.
SelectRow(r, userLat, userLng) ==
    [id |-> r.ID, Boomsoort |-> r.Boomsoort, Boomhoogte |-> r.Boomhoogte,
     longitude |-> Num(r.geometry.x), latitude |-> Num(r.geometry.y),
     distance_meters |->
        IF IsFinite(userLat) /\ IsFinite(userLng)
        THEN STDistance(r.geometry, userLat, userLng) ELSE NaN]

\* WHERE "geometry" IS NOT NULL
WhereGeometry(st) == {r \in st : ~r.geometry.isNull}

\* The rows of R that may come first under ORDER BY "geometry" <-> point:
\* those of least planar distance (any row when the point is not finite,
\* where the operator orders nothing).
FirstRows(R, userLat, userLng) ==
    IF IsFinite(userLat) /\ IsFinite(userLng)
    THEN {r \in R : \A q \in R :
            PlanarKey(r.geometry, userLat, userLng)
                <= PlanarKey(q.geometry, userLat, userLng)}
    ELSE R

RECURSIVE OrderByLimit(_, _, _, _)
\* ORDER BY ... LIMIT k: every sequence of the k first rows of R that the
\* ordering allows (rows at equal planar distance come in either order).
OrderByLimit(R, k, userLat, userLng) ==
    IF k = 0 \/ R = {} THEN {<<>>}
    ELSE UNION {{<<SelectRow(r, userLat, userLng)>> \o t :
                    t \in OrderByLimit(R \ {r}, k - 1, userLat, userLng)} :
                r \in FirstRows(R, userLat, userLng)}

QueryOk(rows) == [ok |-> TRUE, rows |-> rows, err |-> ""]
QueryError(err) == [ok |-> FALSE, rows |-> <<>>, err |-> err]

\* What pool.query(query, [userLat, userLng, limit]) may settle with.  The
\* parameter of LIMIT is a bigint: NaN is no bigint, and a negative LIMIT is
\* an error; a point that is not finite has no geography, and the store may
\* reject it or order nothing; any query may fail on the connection.
QueryOutcomes(st, userLat, userLng, lim) ==
    {QueryError("connection terminated")} \cup
    IF isNaN(lim) THEN {QueryError("invalid input syntax for type bigint")}
    ELSE IF lim.v < 0 THEN {QueryError("LIMIT must not be negative")}
    ELSE (IF IsFinite(userLat) /\ IsFinite(userLng) THEN {}
          ELSE {QueryError("invalid geography")})
         \cup {QueryOk(rows) :
                 rows \in OrderByLimit(WhereGeometry(st), lim.v \div 100,
                                       userLat, userLng)}

\* A variant of StoreAfterQuery: the query consumes the rows it returns.
StoreAfterQueryConsume(st, outcome) ==
    {r \in st : \A i \in 1..Len(outcome.rows) : outcome.rows[i].id # r.ID}

\* The query is a SELECT: it leaves the table as it is.
StoreAfterQuery(st, outcome) == st

----------------------------------------------------------------------------
(* The Query Service: GET of src/app/api/trees/route.ts.                   *)

\* NextResponse.json(body, {status}); JSON drops a field that is undefined
\* and writes a number that is not finite as null.
JsonNull == [k |-> "null", v |-> 0]
JsonNumber(x) == IF IsFinite(x) THEN x ELSE JsonNull
Response(status, body) == [status |-> status, body |-> body]
NoResponse == Response(0, [pending |-> TRUE])

\* A variant of LimitOrDefault: the default is '10'.
LimitOrDefaultTen(limit) == IF Falsy(limit) THEN Str(<<"1", "0">>) ELSE limit

\* const limit = searchParams.get('limit') || '1'
LimitOrDefault(limit) == IF Falsy(limit) THEN Str(<<"1">>) ELSE limit

\* A variant of CoordinatesMissing: the test is on the parsed numbers,
\* if (!parseFloat(lat) || !parseFloat(lng)), and 0 counts as missing.
CoordinatesMissingNumeric(lat, lng) ==
    \/ Falsy(lat) \/ Falsy(lng)
    \/ parseFloat(lat.chars) \in {NaN, Num(0)}
    \/ parseFloat(lng.chars) \in {NaN, Num(0)}

\* if (!lat || !lng)
CoordinatesMissing(lat, lng) == Falsy(lat) \/ Falsy(lng)

\* if (isNaN(userLat) || isNaN(userLng))
CoordinatesInvalid(userLat, userLng) == isNaN(userLat) \/ isNaN(userLng)

\* A variant of QueryArgs: the limit of the request is not passed on.
QueryArgsDefaultLimit(lat, lng, limit) ==
    [userLat |-> parseFloat(lat.chars), userLng |-> parseFloat(lng.chars),
     limit |-> parseInt(<<"1">>)]

\* The arguments of pool.query: [userLat, userLng, parseInt(limit)].
QueryArgs(lat, lng, limit) ==
    [userLat |-> parseFloat(lat.chars), userLng |-> parseFloat(lng.chars),
     limit |-> parseInt(LimitOrDefault(limit).chars)]
NoArgs == [userLat |-> NaN, userLng |-> NaN, limit |-> NaN]

\* GET up to its await: the response it returns at once, or NoResponse when
\* it goes on to the query.
ValidationResponse(lat, lng, limit) ==
    IF CoordinatesMissing(lat, lng)
    THEN Response(400, [error |-> "Latitude and longitude are required"])
    ELSE IF CoordinatesInvalid(parseFloat(lat.chars), parseFloat(lng.chars))
    THEN Response(400, [error |-> "Invalid latitude or longitude"])
    ELSE NoResponse

\* result.rows.map(row => ({...}))
MapRow(row) ==
    [id |-> row.id, boomsoort |-> row.Boomsoort, boomhoogte |-> row.Boomhoogte,
     coordinates |-> <<JsonNumber(row.longitude), JsonNumber(row.latitude)>>,
     distance |-> JsonNumber(MathRound(row.distance_meters))]

MapRows(rows) == [i \in 1..Len(rows) |-> MapRow(rows[i])]

\* A variant of NoRows: if (result.rows === 0), which no array satisfies.
NoRowsNever(rows) == FALSE

\* if (result.rows.length === 0)
NoRows(rows) == Len(rows) = 0

\* The success response; closest: trees[0] is undefined, and so left out of
\* the JSON, when trees is empty.
SuccessResponse(userLat, userLng, mapped) ==
    LET userLocation ==
            [lat |-> JsonNumber(userLat), lng |-> JsonNumber(userLng)]
    IN  IF Len(mapped) > 0
        THEN Response(200, [success |-> TRUE, userLocation |-> userLocation,
                            trees |-> mapped, closest |-> mapped[1]])
        ELSE Response(200, [success |-> TRUE, userLocation |-> userLocation,
                            trees |-> mapped])

\* A variant of CatchResponse: the body carries the message of the error.
CatchResponseLeak(err) == Response(500, [error |-> err])

\* catch (error) { console.error(...); return 500 }
CatchResponse(err) == Response(500, [error |-> "Internal server error"])

\* GET after its await, on the outcome of the query.
QueryResponse(args, outcome) ==
    IF ~outcome.ok THEN CatchResponse(outcome.err)
    ELSE IF NoRows(outcome.rows)
    THEN Response(200, [message |-> "No trees found"])
    ELSE SuccessResponse(args.userLat, args.userLng, MapRows(outcome.rows))

\* Every response GET may give to a request against store st.
GETResponses(st, lat, lng, limit) ==
    IF ValidationResponse(lat, lng, limit).status # 0
    THEN {ValidationResponse(lat, lng, limit)}
    ELSE LET args == QueryArgs(lat, lng, limit)
         IN  {QueryResponse(args, o) :
                o \in QueryOutcomes(st, args.userLat, args.userLng, args.limit)}

NoOutcome == QueryOk(<<>>)

\* A request slot of the hosting runtime: the request, GET's position, the
\* queries it has issued, what the query settled with, what the catch block
\* logged, and the response.
IdleSlot ==
    [pc |-> "idle", lat |-> NULL, lng |-> NULL, limit |-> NULL,
     args |-> NoArgs, queries |-> 0, outcome |-> NoOutcome, logged |-> "",
     resp |-> NoResponse]

----------------------------------------------------------------------------
(* The Map Client: Trees of src/app/_components/trees.tsx.  findTrees and  *)
(* its callbacks are the same in both drafts of the component; the map     *)
(* effects differ.  A render and the effects it schedules run before the   *)
(* next callback, so they are part of the step that set the state.         *)

NoLocation == [isNull |-> TRUE, lat |-> NaN, lng |-> NaN]
Location(lat, lng) == [isNull |-> FALSE, lat |-> lat, lng |-> lng]

\* error is null.
NoError == "null"

\* The codes of GeolocationPositionError.
PERMISSION_DENIED == 1
POSITION_UNAVAILABLE == 2
TIMEOUT == 3
PositionErrorCodes == {PERMISSION_DENIED, POSITION_UNAVAILABLE, TIMEOUT}

\* The positions the platform may report: position.coords.
Positions ==
    {[latitude |-> Num(lat), longitude |-> Num(lng)] :
        lat \in {0, 150}, lng \in {0, 100}}

DigitChar(d) ==
    CASE d = 0 -> "0" [] d = 1 -> "1" [] d = 2 -> "2" [] d = 3 -> "3"
      [] d = 4 -> "4" [] d = 5 -> "5" [] d = 6 -> "6" [] d = 7 -> "7"
      [] d = 8 -> "8" [] d = 9 -> "9"

RECURSIVE NaturalChars(_)
\* The decimal digits of the natural number n.
NaturalChars(n) ==
    IF n < 10 THEN <<DigitChar(n)>>
    ELSE NaturalChars(n \div 10) \o <<DigitChar(n % 10)>>

\* `${x}` for a number x: the shortest decimal that reads back as x.
NumberToString(x) ==
    IF x.k = "nan" THEN <<"N", "a", "N">>
    ELSE IF x.k = "inf"
    THEN (IF x.v < 0 THEN <<"-">> ELSE <<>>) \o InfinityChars
    ELSE LET a  == Abs(x.v)
             d1 == (a % 100) \div 10
             d2 == a % 10
         IN  (IF x.v < 0 THEN <<"-">> ELSE <<>>)
             \o NaturalChars(a \div 100)
             \o (IF d1 = 0 /\ d2 = 0 THEN <<>>
                 ELSE IF d2 = 0 THEN <<".", DigitChar(d1)>>
                 ELSE <<".", DigitChar(d1), DigitChar(d2)>>)

\* fetch(`/api/trees?lat=${latitude}&lng=${longitude}&limit=1000`): the
\* query parameters the service reads from the URL.
FetchRequest(latitude, longitude) ==
    [lat |-> Str(NumberToString(latitude)),
     lng |-> Str(NumberToString(longitude)),
     limit |-> Str(<<"1", "0", "0", "0">>)]

\* data.success
DataSuccess(body) == "success" \in DOMAIN body /\ body.success = TRUE

\* The message the geolocation error callback sets for a PositionError.
GeolocationErrorMessage(code) == "Location access denied"

RemoveAt(seq, i) ==
    [j \in 1..(Len(seq) - 1) |-> IF j < i THEN seq[j] ELSE seq[j + 1]]

Drafts == {1, 2}

\* How far from its centre a view of the given zoom can reach, in hundredths
\* of a unit: the world is 2^zoom tiles of 256 pixels wide, and the map's
\* container is taken to be at most 16 tiles (4096 pixels) off the centre.
ViewReach(zoom) == (360000000 \div (2 ^ zoom)) * 16

\* map.setView(center, zoom): the centre and the zoom are given, the bounds
\* are the widest the container can show.
SetView(center, zoom) ==
    [fitted |-> FALSE,
     sw |-> <<Num(center[1].v - ViewReach(zoom)), Num(center[2].v - ViewReach(zoom))>>,
     ne |-> <<Num(center[1].v + ViewReach(zoom)), Num(center[2].v + ViewReach(zoom))>>,
     zoom |-> zoom]
NoView == [fitted |-> FALSE, sw |-> <<NaN, NaN>>, ne |-> <<NaN, NaN>>, zoom |-> 0]

\* mapInstanceRef.current is null.
NoMap == [exists |-> FALSE, markers |-> <<>>, view |-> NoView]

\* The fallback centre of the first draft, [52.3676, 4.9041] (Amsterdam).
FallbackCenter == <<Num(52367600), Num(4904100)>>

\* The map-initialising effect.  First draft (lines 38-57, dependencies
\* []): at mount, centred on the fallback.  Second draft (lines 229-243,
\* dependencies [location]): at the first render that has a location,
\* centred on it.
InitMap(d, m, loc) ==
    IF m.exists THEN m
    ELSE IF d = 1
    THEN [exists |-> TRUE, markers |-> <<>>, view |-> SetView(FallbackCenter, 13)]
    ELSE IF ~loc.isNull
    THEN [exists |-> TRUE, markers |-> <<>>,
          view |-> SetView(<<loc.lat, loc.lng>>, 15)]
    ELSE m

\* L.marker([location.lat, location.lng], {icon: userIcon}); only the first
\* draft sets isUserLocation on it.
UserMarker(d, loc) ==
    [isUserLocation |-> (d = 1), className |-> "user-marker",
     latlng |-> <<loc.lat, loc.lng>>, closest |-> FALSE, distance |-> JsonNull]

\* L.marker([tree.coordinates[1], tree.coordinates[0]], {icon: treeIcon})
\* with its popup; index 0 is red and 'Closest tree'.
TreeMarker(tree, index) ==
    [isUserLocation |-> FALSE, className |-> "tree-marker",
     latlng |-> <<tree.coordinates[2], tree.coordinates[1]>>,
     closest |-> (index = 0), distance |-> tree.distance]

TreeMarkers(trs) == [i \in 1..Len(trs) |-> TreeMarker(trs[i], i - 1)]

IsKept1(mk) == mk.isUserLocation

\* A variant of KeptMarkers: no marker is removed.
KeptMarkersAll(d, markers) == markers

\* eachLayer(... removeLayer ...): the markers left on the map.  The first
\* draft removes the markers without isUserLocation, the second every
\* marker.
KeptMarkers(d, markers) ==
    IF d = 1 THEN SelectSeq(markers, IsKept1) ELSE <<>>

MinOf(S) == CHOOSE x \in S : \A y \in S : x <= y
MaxOf(S) == CHOOSE x \in S : \A y \in S : x >= y

\* new L.FeatureGroup([user, ...trees]).getBounds().pad(0.1): the bounds of
\* the location and the trees, widened by a tenth on every side.
PaddedBounds(loc, trs) ==
    LET lats == {loc.lat.v} \cup {trs[i].coordinates[2].v : i \in 1..Len(trs)}
        lngs == {loc.lng.v} \cup {trs[i].coordinates[1].v : i \in 1..Len(trs)}
        dLat == (MaxOf(lats) - MinOf(lats)) \div 10
        dLng == (MaxOf(lngs) - MinOf(lngs)) \div 10
    IN  [fitted |-> TRUE,
         sw |-> <<Num(MinOf(lats) - dLat), Num(MinOf(lngs) - dLng)>>,
         ne |-> <<Num(MaxOf(lats) + dLat), Num(MaxOf(lngs) + dLng)>>,
         zoom |-> 0]

\* if (trees.length > 0) fitBounds(...)
ViewAfterMarkers(view, loc, trs) ==
    IF Len(trs) > 0 THEN PaddedBounds(loc, trs) ELSE view

\* The marker effect (lines 60-115 and 247-294, dependencies
\* [location, trees]).
MarkerEffect(d, m, loc, trs) ==
    IF m.exists /\ ~loc.isNull
    THEN [exists |-> TRUE,
          markers |-> KeptMarkers(d, m.markers) \o <<UserMarker(d, loc)>>
                        \o TreeMarkers(trs),
          view |-> ViewAfterMarkers(m.view, loc, trs)]
    ELSE m

\* The effects of a render in which location or trees changed.
RenderEffects(d, m, loc, trs) == MarkerEffect(d, InitMap(d, m, loc), loc, trs)

Flow(stage, status) == [stage |-> stage, status |-> status]

ClientInitial ==
    /\ mounted = FALSE
    /\ location = NoLocation
    /\ trees = <<>>
    /\ loading = FALSE
    /\ error = NoError
    /\ geoPending = 0
    /\ geoErrorCode = 0
    /\ fetchPending = <<>>
    /\ map = NoMap
    /\ clicks = 0
    /\ flow = Flow("none", 0)

\* A variant of findTrees: without setError(null).
findTreesKeepError ==
    /\ geoErrorCode' = 0
    /\ IF ~geolocation
       THEN /\ error' = "Geolocation not supported"
            /\ loading' = FALSE
            /\ flow' = Flow("unsupported", 0)
            /\ UNCHANGED geoPending
       ELSE /\ UNCHANGED error
            /\ loading' = TRUE
            /\ flow' = Flow("started", 0)
            /\ geoPending' = geoPending + 1
    /\ UNCHANGED <<geolocation, location, trees, fetchPending, draft, store,
                   srv>>

\* findTrees up to getCurrentPosition (lines 118-128 and 297-307).
findTrees ==
    /\ geoErrorCode' = 0
    /\ IF ~geolocation
       THEN /\ error' = "Geolocation not supported"
            /\ loading' = FALSE
            /\ flow' = Flow("unsupported", 0)
            /\ UNCHANGED geoPending
       ELSE /\ error' = NoError
            /\ loading' = TRUE
            /\ flow' = Flow("started", 0)
            /\ geoPending' = geoPending + 1
    /\ UNCHANGED <<geolocation, location, trees, fetchPending, draft, store,
                   srv>>

\* The first render: the effects run in the order they are declared, the
\* map effects with location null, then useEffect(() => { findTrees() }, []).
Mount ==
    /\ ~mounted
    /\ mounted' = TRUE
    /\ map' = RenderEffects(draft, map, location, trees)
    /\ UNCHANGED clicks
    /\ findTrees

\* A variant of Click: the button is not disabled while loading.
ClickAlways ==
    /\ mounted
    /\ clicks < MaxClicks
    /\ clicks' = clicks + 1
    /\ UNCHANGED <<mounted, map>>
    /\ findTrees

\* The button, onClick={findTrees} disabled={loading}.
Click ==
    /\ mounted
    /\ ~loading
    /\ clicks < MaxClicks
    /\ clicks' = clicks + 1
    /\ UNCHANGED <<mounted, map>>
    /\ findTrees

\* The success callback of getCurrentPosition up to its await (lines
\* 129-137 and 308-314).
GeoSuccess(position) ==
    /\ geoPending > 0
    /\ geoPending' = geoPending - 1
    /\ location' = Location(position.latitude, position.longitude)
    /\ fetchPending' =
          Append(fetchPending, FetchRequest(position.latitude, position.longitude))
    /\ map' = RenderEffects(draft, map, location', trees)
    /\ flow' = Flow("located", 0)
    /\ UNCHANGED <<mounted, geolocation, trees, loading, error, geoErrorCode,
                   draft, clicks, store, srv>>

\* The error callback of getCurrentPosition (lines 151-154 and 328-331).
GeoError(code) ==
    /\ geoPending > 0
    /\ geoPending' = geoPending - 1
    /\ error' = GeolocationErrorMessage(code)
    /\ loading' = FALSE
    /\ geoErrorCode' = code
    /\ flow' = Flow("geoError", 0)
    /\ UNCHANGED <<mounted, geolocation, location, trees, fetchPending,
                   draft, map, clicks, store, srv>>

\* The fetch resolves with a response of the Query Service and its body
\* parses (lines 138-144, 147-149 and 315-321, 324-326).
FetchSettles(i, resp) ==
    /\ i \in 1..Len(fetchPending)
    /\ resp \in GETResponses(store, fetchPending[i].lat, fetchPending[i].lng,
                             fetchPending[i].limit)
    /\ fetchPending' = RemoveAt(fetchPending, i)
    /\ IF DataSuccess(resp.body)
       THEN /\ trees' = resp.body.trees
            /\ map' = RenderEffects(draft, map, location, trees')
            /\ flow' = Flow("success", resp.status)
            /\ UNCHANGED error
       ELSE /\ error' = "No trees found"
            /\ flow' = Flow("noSuccess", resp.status)
            /\ UNCHANGED <<trees, map>>
    /\ loading' = FALSE
    /\ UNCHANGED <<mounted, geolocation, location, geoPending, geoErrorCode,
                   draft, clicks, store, srv>>

\* The fetch rejects or the body is not JSON (lines 145-149 and 322-326).
FetchFails(i) ==
    /\ i \in 1..Len(fetchPending)
    /\ fetchPending' = RemoveAt(fetchPending, i)
    /\ error' = "Failed to fetch trees"
    /\ loading' = FALSE
    /\ flow' = Flow("fetchFailed", 0)
    /\ UNCHANGED <<mounted, geolocation, location, trees, geoPending,
                   geoErrorCode, draft, map, clicks, store, srv>>

\* The stores the client is run against.
ClientStores ==
    SubsetsUpTo({RowAt(<<0, 2>>), RowAt(<<2, 1>>), RowAt(<<1, 0>>), NullRow},
                MaxTrees)

----------------------------------------------------------------------------
(* Requests.                                                               *)

Chars0 == <<"0">>
Chars1 == <<"1">>
CharsAbc == <<"a", "b", "c">>
Chars12abc == <<"1", "2", "a", "b", "c">>

\* The values of lat and of lng a request may carry.
CoordinateParams ==
    {NULL, Str(<<>>), Str(Chars0), Str(Chars1), Str(CharsAbc), Str(Chars12abc),
     Str(InfinityChars)}

\* The values of limit a request may carry.
LimitParams ==
    {NULL, Str(<<>>), Str(Chars1), Str(<<"2">>), Str(Chars0), Str(<<"-", "1">>),
     Str(CharsAbc), Str(<<"2", ".", "5">>), Str(<<"1", "0", "0", "0">>)}

Slots == 1..NumSlots

\* GET from the request to its await (lines 53-95): the validation, and
\* either a 400 response or the call of pool.query.
GETStart(s, lat, lng, limit) ==
    /\ srv[s].pc = "idle"
    /\ LET early == ValidationResponse(lat, lng, limit)
       IN  srv' = [srv EXCEPT ![s] =
                IF early.status # 0
                THEN [IdleSlot EXCEPT !.pc = "done", !.lat = lat, !.lng = lng,
                                      !.limit = limit, !.resp = early]
                ELSE [IdleSlot EXCEPT !.pc = "awaiting", !.lat = lat,
                                      !.lng = lng, !.limit = limit,
                                      !.args = QueryArgs(lat, lng, limit),
                                      !.queries = 1]]
    /\ UNCHANGED <<store, clientVars>>

\* The query settles and GET runs to its return (lines 95-122).
GETFinish(s) ==
    /\ srv[s].pc = "awaiting"
    /\ \E o \in QueryOutcomes(store, srv[s].args.userLat, srv[s].args.userLng,
                              srv[s].args.limit) :
          /\ srv' = [srv EXCEPT ![s].pc = "done", ![s].outcome = o,
                                ![s].logged = o.err,
                                ![s].resp = QueryResponse(srv[s].args, o)]
          /\ store' = StoreAfterQuery(store, o)
    /\ UNCHANGED clientVars

\* The runtime sends the response; the slot is free for the next request.
GETDeliver(s) ==
    /\ srv[s].pc = "done"
    /\ srv' = [srv EXCEPT ![s] = IdleSlot]
    /\ UNCHANGED <<store, clientVars>>

Init ==
    /\ store \in Stores
    /\ srv = [s \in Slots |-> IdleSlot]
    /\ ClientInitial
    /\ geolocation = TRUE
    /\ draft = 1

\* One request at a time, every request and every store of the bounds.
Next ==
    \/ \E lat \in CoordinateParams, lng \in CoordinateParams,
          limit \in LimitParams : GETStart(1, lat, lng, limit)
    \/ GETFinish(1)
    \/ GETDeliver(1)

Spec == Init /\ [][Next]_vars

----------------------------------------------------------------------------
(* Concurrent requests: NumSlots requests in flight over a small family    *)
(* of requests and stores.                                                 *)

ConcurrentLat == {NULL, Str(Chars0)}
ConcurrentLng == {Str(Chars0)}
ConcurrentLimit == {NULL, Str(<<"2">>), Str(CharsAbc)}
ConcurrentStores == SubsetsUpTo({RowAt(<<0, 1>>), RowAt(<<1, 0>>)}, MaxTrees)

InitConcurrent ==
    /\ store \in ConcurrentStores
    /\ srv = [s \in Slots |-> IdleSlot]
    /\ ClientInitial
    /\ geolocation = TRUE
    /\ draft = 1

NextConcurrent ==
    \E s \in Slots :
        \/ \E lat \in ConcurrentLat, lng \in ConcurrentLng,
              limit \in ConcurrentLimit : GETStart(s, lat, lng, limit)
        \/ GETFinish(s)
        \/ GETDeliver(s)

SpecConcurrent == InitConcurrent /\ [][NextConcurrent]_vars

InitClient ==
    /\ store \in ClientStores
    /\ srv = [s \in Slots |-> IdleSlot]
    /\ ClientInitial
    /\ geolocation \in BOOLEAN
    /\ draft \in Drafts

NextClient ==
    \/ Mount
    \/ Click
    \/ \E position \in Positions : GeoSuccess(position)
    \/ \E code \in PositionErrorCodes : GeoError(code)
    \/ \E i \in 1..Len(fetchPending) :
          \E resp \in GETResponses(store, fetchPending[i].lat,
                                   fetchPending[i].lng, fetchPending[i].limit) :
             FetchSettles(i, resp)
    \/ \E i \in 1..Len(fetchPending) : FetchFails(i)

SpecClient == InitClient /\ [][NextClient]_vars

\* The options of getCurrentPosition(success, error): the call passes none,
\* so the platform's defaults apply, and the default timeout is Infinity.
GeolocationOptions == [enableHighAccuracy |-> FALSE, timeout |-> Infinity(1)]

\* The platform's timer: with a finite timeout it calls the error callback
\* with TIMEOUT while the position request is pending.
TimeoutFires ==
    /\ IsFinite(GeolocationOptions.timeout)
    /\ GeoError(TIMEOUT)

\* The fetch settles or fails.
FetchCompletes ==
    \/ \E i \in 1..Len(fetchPending) :
          \E resp \in GETResponses(store, fetchPending[i].lat,
                                   fetchPending[i].lng, fetchPending[i].limit) :
             FetchSettles(i, resp)
    \/ \E i \in 1..Len(fetchPending) : FetchFails(i)

\* The client with what its platform guarantees: the component mounts, a
\* fetch completes, and a requested timeout fires.  The platform
\* geolocation owes no callback of its own.
SpecClientFair ==
    /\ InitClient
    /\ [][NextClient]_vars
    /\ WF_vars(Mount)
    /\ WF_vars(FetchCompletes)
    /\ WF_vars(TimeoutFires)

----------------------------------------------------------------------------
(* Vocabulary of the claims about the Query Service.                       *)

\* cs is, as a whole, a decimal literal: a sign, digits, and at most a
\* point followed by digits.
DecimalLiteral(cs) ==
    LET sg == SignAt(cs, 1)
        n  == LeadDigits(cs, 1 + sg[2])
        pt == 1 + sg[2] + n <= Len(cs) /\ cs[1 + sg[2] + n] = "."
        m  == IF pt THEN LeadDigits(cs, 2 + sg[2] + n) ELSE 0
    IN  /\ n + m > 0
        /\ Len(cs) = sg[2] + n + (IF pt THEN 1 + m ELSE 0)
        /\ pt => m > 0

\* The parameter is present and a finite decimal number.
ValidCoordinate(p) == ~p.isNull /\ DecimalLiteral(p.chars)

\* The parameter is present and a positive integer.
PositiveInteger(p) ==
    /\ ~p.isNull
    /\ Len(p.chars) > 0
    /\ LeadDigits(p.chars, 1) = Len(p.chars)
    /\ DigitsValue(p.chars, 1, Len(p.chars)) > 0

IntegerValue(p) == DigitsValue(p.chars, 1, Len(p.chars))

Min(a, b) == IF a <= b THEN a ELSE b

Done(s) == srv[s].pc = "done"
ValidCoordinates(s) == ValidCoordinate(srv[s].lat) /\ ValidCoordinate(srv[s].lng)
IsSuccess(resp) == "success" \in DOMAIN resp.body
\* The query of slot s ran and gave rows (it did not fail).
QueryAnswered(s) == Done(s) /\ srv[s].queries = 1 /\ srv[s].outcome.ok
\* N: the entities of the store, rows with a geometry.
EntityCount == Cardinality(WhereGeometry(store))

NonNegativeInteger(x) == x.k = "num" /\ x.v >= 0 /\ x.v % 100 = 0

\* No two entities of the store are at the same planar distance of the
\* point: the order of the rows is then fixed by the ORDER BY alone.
NoPlanarTie(userLat, userLng) ==
    \A r, q \in WhereGeometry(store) :
        r # q => PlanarKey(r.geometry, userLat, userLng)
                    # PlanarKey(q.geometry, userLat, userLng)

\* C1 (as claimed), for stores where the ORDER BY leaves no choice: in
\* every success response the distances of trees are non-decreasing along
\* the array and closest is trees[0].
C1_SortedByDistance ==
    \A s \in Slots :
        (/\ Done(s) /\ ValidCoordinates(s) /\ IsSuccess(srv[s].resp)
         /\ NoPlanarTie(srv[s].args.userLat, srv[s].args.userLng)) =>
            LET body == srv[s].resp.body
            IN  /\ \A i \in 1..(Len(body.trees) - 1) :
                      body.trees[i].distance.v <= body.trees[i + 1].distance.v
                /\ body.closest = body.trees[1]

\* C2: with valid coordinates and a positive integer limit L, an answered
\* query over N entities gives a success response exactly when N > 0, its
\* trees has exactly min(L, N) entries, never more than L, and every
\* distance is a non-negative integer.
C2_LimitBoundsCount ==
    \A s \in Slots :
        (QueryAnswered(s) /\ ValidCoordinates(s) /\ PositiveInteger(srv[s].limit)) =>
            LET resp == srv[s].resp
                L == IntegerValue(srv[s].limit)
            IN  /\ IsSuccess(resp) <=> EntityCount > 0
                /\ IsSuccess(resp) =>
                      /\ Len(resp.body.trees) = Min(L, EntityCount)
                      /\ Len(resp.body.trees) <= L
                      /\ \A i \in 1..Len(resp.body.trees) :
                            NonNegativeInteger(resp.body.trees[i].distance)

\* C2 witness: a limit of 2 against two entities returned two trees.
C2_Witness ==
    /\ QueryAnswered(1) /\ ValidCoordinates(1)
    /\ srv[1].limit = Str(<<"2">>)
    /\ EntityCount = 2
    /\ IsSuccess(srv[1].resp)
    /\ Len(srv[1].resp.body.trees) = 2

\* C3: a request without lat or without lng is answered 400 with an error
\* field whatever the rest of it; a request whose lat and lng are both
\* numeric, 0 included, is never answered 400.
C3_MissingCoordinates ==
    \A s \in Slots :
        /\ (srv[s].pc # "idle" /\ (srv[s].lat.isNull \/ srv[s].lng.isNull)) =>
              /\ Done(s)
              /\ srv[s].resp.status = 400
              /\ "error" \in DOMAIN srv[s].resp.body
        /\ (Done(s) /\ ValidCoordinates(s)) => srv[s].resp.status # 400

\* C3 witness: lat is absent, lng is 0 and limit is given; the answer is 400.
C3_Witness ==
    /\ Done(1) /\ srv[1].lat.isNull /\ srv[1].lng = Str(Chars0)
    /\ srv[1].limit = Str(<<"2">>)
    /\ srv[1].resp.status = 400

\* C4 (as claimed): a request whose lat or lng is present but is not a
\* finite decimal number is answered 400 with an error field and issues no
\* query.
C4_NonNumericRejected ==
    \A s \in Slots :
        (/\ srv[s].pc # "idle"
         /\ ~srv[s].lat.isNull /\ ~srv[s].lng.isNull
         /\ ~ValidCoordinates(s)) =>
            /\ Done(s)
            /\ srv[s].resp.status = 400
            /\ "error" \in DOMAIN srv[s].resp.body
            /\ srv[s].queries = 0

\* C5: with valid coordinates and no limit parameter, an answered query
\* returns exactly one tree when the store holds an entity, and never more.
C5_DefaultLimitOne ==
    \A s \in Slots :
        (QueryAnswered(s) /\ ValidCoordinates(s) /\ srv[s].limit.isNull) =>
            /\ EntityCount >= 1 =>
                  IsSuccess(srv[s].resp) /\ Len(srv[s].resp.body.trees) = 1
            /\ IsSuccess(srv[s].resp) => Len(srv[s].resp.body.trees) <= 1

\* C5 witness: no limit, two entities in the store, one tree returned.
C5_Witness ==
    /\ QueryAnswered(1) /\ ValidCoordinates(1) /\ srv[1].limit.isNull
    /\ EntityCount = 2
    /\ IsSuccess(srv[1].resp) /\ Len(srv[1].resp.body.trees) = 1

\* C6 (as claimed): with valid coordinates, a limit that is present and is
\* not a positive integer never ends in a 500, unless the connection to
\* the store itself failed.
C6_MalformedLimitSafe ==
    \A s \in Slots :
        (/\ Done(s) /\ ValidCoordinates(s)
         /\ ~srv[s].limit.isNull /\ ~PositiveInteger(srv[s].limit)
         /\ srv[s].outcome.err # "connection terminated") =>
            srv[s].resp.status # 500

\* C7: a query that returns no row is answered 200 with a body that has a
\* message field and no trees, success or error field; every success
\* response has success true, a non-empty trees and a closest.
C7_EmptyResultMessage ==
    \A s \in Slots :
        /\ (QueryAnswered(s) /\ Len(srv[s].outcome.rows) = 0) =>
              /\ srv[s].resp.status = 200
              /\ "message" \in DOMAIN srv[s].resp.body
              /\ {"trees", "success", "error"} \cap DOMAIN srv[s].resp.body = {}
        /\ (Done(s) /\ IsSuccess(srv[s].resp)) =>
              /\ srv[s].resp.body.success
              /\ Len(srv[s].resp.body.trees) > 0
              /\ "closest" \in DOMAIN srv[s].resp.body

\* C7 witness: valid coordinates, a store without entities, the query
\* answered with no row.
C7_Witness ==
    /\ QueryAnswered(1) /\ ValidCoordinates(1)
    /\ PositiveInteger(srv[1].limit)
    /\ Len(srv[1].outcome.rows) = 0
    /\ srv[1].resp.status = 200

\* The query of slot s ran and failed.
QueryFailed(s) == Done(s) /\ srv[s].queries = 1 /\ ~srv[s].outcome.ok

\* C8: a failed query is answered 500 with the fixed body, whatever the
\* error was (two requests that failed differently got the same body), the
\* error went to the log only, and every request that ended has a response.
C8_GenericServerError ==
    /\ \A s \in Slots :
          /\ QueryFailed(s) =>
                /\ srv[s].resp = Response(500, [error |-> "Internal server error"])
                /\ srv[s].logged = srv[s].outcome.err
          /\ Done(s) => srv[s].resp.status \in {200, 400, 500}
    /\ \A s, t \in Slots :
          (QueryFailed(s) /\ QueryFailed(t)) => srv[s].resp.body = srv[t].resp.body

\* C8 witness: two requests failed with different errors.
C8_Witness ==
    /\ QueryFailed(1) /\ QueryFailed(2)
    /\ srv[1].outcome.err = "connection terminated"
    /\ srv[2].outcome.err = "invalid input syntax for type bigint"

\* What C9 says of one state: a request answered 400 issued no query, any
\* other request issued exactly one, and the response of a request is one
\* the handler gives to that request alone against the store.
C9_OneQueryPerRequest ==
    \A s \in Slots :
        /\ srv[s].pc = "idle" => srv[s].queries = 0
        /\ srv[s].pc = "awaiting" => srv[s].queries = 1
        /\ Done(s) =>
              /\ srv[s].queries = (IF srv[s].resp.status = 400 THEN 0 ELSE 1)
              /\ srv[s].resp \in
                    GETResponses(store, srv[s].lat, srv[s].lng, srv[s].limit)

\* C9: every request issues one query when it passes validation and none
\* when it is answered 400, no step changes the store, and each response
\* is one the request gets on its own, whatever else was or is handled.
C9_ReadOnlyIndependent ==
    /\ [] C9_OneQueryPerRequest
    /\ [][store' = store]_vars

\* C9 witness: a request has been answered with trees while a second
\* request for the same point is still waiting for its query.
C9_Witness ==
    /\ Done(1) /\ IsSuccess(srv[1].resp)
    /\ srv[2].pc = "awaiting"
    /\ srv[2].lat = srv[1].lat /\ srv[2].lng = srv[1].lng

----------------------------------------------------------------------------
(* Claims about the Map Client.                                            *)

\* C10 (as claimed): after the geolocation error callback ran, loading is
\* false and no request to the Query Service is in flight; and when the
\* cause was a timeout the message is "Location request timed out.", a
\* message no other cause gets.
C10_GeolocationErrorMessages ==
    /\ geoErrorCode # 0 => ~loading /\ fetchPending = <<>>
    /\ geoErrorCode = TIMEOUT =>
          /\ error = "Location request timed out."
          /\ \A c \in PositionErrorCodes \ {TIMEOUT} :
                GeolocationErrorMessage(c) # error

\* Geolocation-then-fetch chains in flight: a position request waiting for
\* its callback, or a fetch waiting to settle.
ChainsInFlight == geoPending + Len(fetchPending)

\* C11: across every interleaving of the mount trigger, clicks, geolocation
\* callbacks and fetch completions, at most one geolocation-then-fetch chain
\* is in flight, and loading is true exactly while one is in flight.
C11_SingleChain ==
    /\ ChainsInFlight <= 1
    /\ loading <=> (ChainsInFlight = 1)

\* A fetch of a flow started by a click is in flight and the button is
\* disabled.
C11_Witness ==
    /\ clicks > 0
    /\ Len(fetchPending) = 1
    /\ loading

\* C12: the location request has a bounded wait, so whenever loading
\* becomes true it eventually becomes false again, even when the platform
\* geolocation never calls back on its own.
C12_FlowFinishes == loading ~> ~loading

IsTreeMarker(mk) == mk.className = "tree-marker"
IsUserMarker(mk) == mk.className = "user-marker"
MapTreeMarkers == SelectSeq(map.markers, IsTreeMarker)
MapUserMarkers == SelectSeq(map.markers, IsUserMarker)

\* C13: in both drafts the tree markers on the map are exactly one per
\* element of trees, in order, each at its tree's (latitude, longitude);
\* no tree marker of an earlier result remains.
C13_NoTreeMarkerAccumulation ==
    /\ Len(MapTreeMarkers) = Len(trees)
    /\ \A i \in 1..Len(trees) :
          MapTreeMarkers[i].latlng =
              <<trees[i].coordinates[2], trees[i].coordinates[1]>>

\* The second successful query in a row has drawn its two trees: with one
\* click the marker effect has run four times, twice for a new location
\* and twice for new trees.
C13_Witness ==
    /\ draft = 1
    /\ clicks = 1
    /\ Len(MapUserMarkers) = 4
    /\ flow.stage = "success"
    /\ Len(trees) = 2

\* C14: in the first draft, once the marker effect has run, the map carries
\* exactly one user-location marker and it is at the current location.
C14_OneUserMarker ==
    (draft = 1 /\ map.exists /\ ~location.isNull) =>
        /\ Len(MapUserMarkers) = 1
        /\ MapUserMarkers[1].latlng = <<location.lat, location.lng>>

\* The successful answers the Query Service can give for the current
\* location.
AnswersForLocation ==
    LET req == FetchRequest(location.lat, location.lng)
    IN  {resp \in GETResponses(store, req.lat, req.lng, req.limit) :
            DataSuccess(resp.body)}

\* C15: a new query supersedes the rendered results: once a chain has
\* completed with a fetch that failed or returned no trees, trees does not
\* hold the result of an earlier query for another location.
C15_NewQuerySupersedes ==
    (ChainsInFlight = 0 /\ flow.stage \in {"fetchFailed", "noSuccess"}) =>
        \/ trees = <<>>
        \/ \E resp \in AnswersForLocation : resp.body.trees = trees

\* The view shows the point.
InView(view, latlng) ==
    /\ view.sw[1].v <= latlng[1].v /\ latlng[1].v <= view.ne[1].v
    /\ view.sw[2].v <= latlng[2].v /\ latlng[2].v <= view.ne[2].v

\* C16: once the marker effect has run, the view's bounds contain every
\* marker on the map, also when trees is empty and only the user-location
\* marker is drawn.
C16_ViewBoundsAllMarkers ==
    (map.exists /\ ~location.isNull) =>
        \A i \in 1..Len(map.markers) : InView(map.view, map.markers[i].latlng)

\* C17: whenever tree markers are drawn, exactly one of them is marked as
\* the closest, and no drawn tree has a smaller distance than it.
C17_ClosestIsNearest ==
    Len(MapTreeMarkers) > 0 =>
        \E c \in 1..Len(MapTreeMarkers) :
            /\ \A i \in 1..Len(MapTreeMarkers) :
                  MapTreeMarkers[i].closest <=> (i = c)
            /\ \A i \in 1..Len(MapTreeMarkers) :
                  MapTreeMarkers[c].distance.v <= MapTreeMarkers[i].distance.v

\* The stages at which a findTrees flow ends in a failure.
FailureStages == {"unsupported", "geoError", "fetchFailed", "noSuccess"}

\* C18: every path through findTrees that ends in a failure ends with error
\* non-null and loading false; a fetch rejection or a parse error gives the
\* generic message; and a flow that has started and has had no callback yet
\* has error null.
C18_FailuresShownNeverStuck ==
    /\ flow.stage \in FailureStages => (error # NoError /\ ~loading)
    /\ flow.stage = "fetchFailed" => error = "Failed to fetch trees"
    /\ flow.stage = "started" => error = NoError

\* A flow started by a click after an earlier flow had run has ended with a
\* rejected fetch.
C18_Witness ==
    /\ clicks > 0
    /\ flow.stage = "fetchFailed"
    /\ error = "Failed to fetch trees"
    /\ ~loading

\* C19: the client shows 'No trees found' only for the Query Service's
\* empty result, a 200 response, never for a 400 or 500 error response.
C19_NoTreesFoundOnlyWhenEmpty ==
    error = "No trees found" => (flow.stage = "noSuccess" /\ flow.status = 200)

----------------------------------------------------------------------------
(* A claim about the Query Service and the Map Client together.            *)

\* The success response of slot s carries the rows of its query: same
\* length, same order, coordinates longitude first, and the client's marker
\* for each entry is at the row's (latitude, longitude).
TreesMirrorRows(s) ==
    LET rows == srv[s].outcome.rows
        body == srv[s].resp.body
    IN  /\ Len(body.trees) = Len(rows)
        /\ \A i \in 1..Len(rows) :
              /\ body.trees[i].id = rows[i].id
              /\ body.trees[i].coordinates = <<rows[i].longitude, rows[i].latitude>>
              /\ TreeMarker(body.trees[i], i - 1).latlng
                    = <<rows[i].latitude, rows[i].longitude>>

\* C20: in every success response userLocation is the parsed query
\* coordinates, and trees mirrors the rows of the query, coordinates
\* longitude first, so that the client's marker is at (latitude, longitude).
C20_ResponseMirrorsQuery ==
    \A s \in Slots :
        (Done(s) /\ IsSuccess(srv[s].resp)) =>
            /\ srv[s].resp.body.userLocation.lat = srv[s].args.userLat
            /\ srv[s].resp.body.userLocation.lng = srv[s].args.userLng
            /\ TreesMirrorRows(s)
====
